---- MODULE Spec2Model ----
(***************************************************************************)
(* User service: REST handlers (internal/controller), the service layer    *)
(* (internal/service), the Mongo users storage (internal/storage) and the  *)
(* Kafka topic producer (internal/events), wired as in main.go:            *)
(* controller -> service -> storage / events producer.                     *)
(*                                                                         *)
(* Every HTTP request is a process.  Its handler runs in three atomic      *)
(* steps, cut at the calls to the external systems: Receive (bind,         *)
(* validate, parse, stamp), the storage call, and the producer call        *)
(* followed by the response.                                               *)
(*                                                                         *)
(* The pure functions of the program (the field validator, the list query  *)
(* parser, the storage query builder) are also run on their own, one call  *)
(* at a time over a wide set of arguments, in the specification CallSpec.  *)
(***************************************************************************)
EXTENDS Integers, Sequences, FiniteSets, TLC

\* ------------------------------------------------------------------ bounds
MaxReqs == 2        \* request processes
MaxID == 3          \* identifiers in use, seeded or handed out by uuid.NewUUID
MaxClock == 4       \* last clock reading, in ticks
Millisecond == 2    \* ticks per millisecond (time.Millisecond, scaled down)
IntBits == 8        \* width of Go's int (64 on the build targets, scaled down)
MaxParts == 3       \* most "."-separated segments of a sortBy value tried

\* --------------------------------------------------------- program constants
StatusOK == 200
StatusCreated == 201
StatusNoContent == 204
StatusBadRequest == 400
StatusNotFound == 404
StatusInternalServerError == 500
defaultPageSize == 20
defaultPage == 0

Reqs == 1..MaxReqs
NilUUID == 0                        \* uuid.UUID{}
IDs == 1..MaxID
SeedIDs == {1}                      \* records in the DB before start
BadID == -1                         \* a path parameter uuid.Parse rejects
PathIDs == IDs \cup {BadID}
ZeroTime == 0                       \* time.Time{}
ClientTime == MaxClock + 1          \* a timestamp a client may send in a body

\* A stamp that keeps the clock's full precision.
NoTruncate(t) == t

\* time.Time.Truncate(time.Millisecond)
Truncate(t) == (t \div Millisecond) * Millisecond

\* The BSON codec stores time.Time as a datetime of millisecond precision.
BSONTime(t) == (t \div Millisecond) * Millisecond

\* model.User
User(id, f, l, n, p, e, c, ca, ua) ==
    [id |-> id, first_name |-> f, last_name |-> l, nickname |-> n,
     password |-> p, email |-> e, country |-> c,
     created_at |-> ca, updated_at |-> ua]

TextFields ==
    {"first_name", "last_name", "nickname", "password", "email", "country"}

SameTexts(u, v) == \A k \in TextFields : u[k] = v[k]

\* The outcome of mail.ParseAddress on the e-mail strings of the model.
ParseAddressOK(s) == s \in {"a@x.io", "b@x.io"}

\* A validator that accepts every user.
validateNothing(u) == ""

\* A validator that looks at the last name before the first name.
validateLastNameFirst(u) ==
    IF u.last_name = "" THEN "last name is required"
    ELSE IF u.first_name = "" THEN "first name is required"
    ELSE IF u.nickname = "" THEN "nickname is required"
    ELSE IF u.password = "" THEN "password is required"
    ELSE IF u.email = "" THEN "email is required"
    ELSE IF ~ParseAddressOK(u.email) THEN "email is invalid"
    ELSE IF u.country = "" THEN "country is required"
    ELSE ""

\* validateRequiredRequestFields: "" stands for a nil error.
validateRequiredRequestFields(u) ==
    IF u.first_name = "" THEN "first name is required"
    ELSE IF u.last_name = "" THEN "last name is required"
    ELSE IF u.nickname = "" THEN "nickname is required"
    ELSE IF u.password = "" THEN "password is required"
    ELSE IF u.email = "" THEN "email is required"
    ELSE IF ~ParseAddressOK(u.email) THEN "email is invalid"
    ELSE IF u.country = "" THEN "country is required"
    ELSE ""

\* Request bodies: the User a client sends (BindJSON result).  A client may
\* fill the identifier and the timestamps too.
Bodies ==
    { User(1, "b", "b", "b", "b", "b@x.io", "b", ClientTime, ClientTime + 1),
      User(NilUUID, "", "b", "b", "b", "b@x.io", "b", ZeroTime, ZeroTime),
      User(NilUUID, "b", "b", "b", "b", "nomail", "b", ZeroTime, ZeroTime) }

NoBody == User(NilUUID, "", "", "", "", "", "", ZeroTime, ZeroTime)

\* A record as a test seeds it into the users collection.
SeedUser(i) ==
    User(i, "a", "a", "a", "a", "a@x.io", "a", Millisecond, Millisecond)

VARIABLES
    users,      \* the users collection: identifier -> stored document
    topic,      \* the events the Kafka producer accepted, in order, each
                \* with the request that produced it
    clock,      \* the last reading of time.Now
    issued,     \* how many identifiers uuid.NewUUID handed out
    reqs,       \* the requests: position, locals, outcome
    call,       \* CallSpec: the function call under evaluation
    proc        \* ShutdownSpec: the process, its server and its connections

vars == <<users, topic, clock, issued, reqs, call, proc>>

\* ------------------------------------------------------------------ events
\* model.newUserEvent
newUserEvent(action, userData) == [action |-> action, user_data |-> userData]

\* model.NewUserCreatedEvent
NewUserCreatedEvent(u) == newUserEvent("created", u)

\* model.NewUserUpdatedEvent
NewUserUpdatedEvent(u) == newUserEvent("updated", u)

\* A deleted event that carries a whole (empty) User instead of the identifier.
NewUserDeletedEventWithUser(id) ==
    newUserEvent("deleted",
        [id |-> id, first_name |-> "", last_name |-> "", nickname |-> "",
         password |-> "", email |-> "", country |-> "",
         created_at |-> 0, updated_at |-> 0])

\* model.NewUserDeletedEvent: the payload is UserDeletedData{UserID}
NewUserDeletedEvent(id) == newUserEvent("deleted", [id |-> id])

\* ----------------------------------------------------------------- storage
\* The document InsertOne writes for a model.User (bson tags of model.User).
Doc(u) ==
    [u EXCEPT !.created_at = BSONTime(u.created_at),
              !.updated_at = BSONTime(u.updated_at)]

\* MongoUsersStorage.CreateUser: the collection after InsertOne succeeded.
InsertOne(coll, u) ==
    [i \in DOMAIN coll \cup {u.id} |-> IF i = u.id THEN Doc(u) ELSE coll[i]]

\* A "$set" clause that lists created_at too.
SetFieldsWithCreatedAt(doc, u) ==
    [doc EXCEPT !.first_name = u.first_name, !.last_name = u.last_name,
                !.nickname = u.nickname, !.password = u.password,
                !.email = u.email, !.country = u.country,
                !.created_at = BSONTime(u.created_at),
                !.updated_at = BSONTime(u.updated_at)]

\* MongoUsersStorage.UpdateUser: the "$set" clause applied to a document.
SetFields(doc, u) ==
    [doc EXCEPT !.first_name = u.first_name, !.last_name = u.last_name,
                !.nickname = u.nickname, !.password = u.password,
                !.email = u.email, !.country = u.country,
                !.updated_at = BSONTime(u.updated_at)]

\* MongoUsersStorage.UpdateUser: the filter {"_id": {"$eq": user.ID}}.
UpdateFilterID(u) == u.id

\* The collection after FindOneAndUpdate matched a document.
FindOneAndUpdate(coll, u) ==
    [coll EXCEPT ![UpdateFilterID(u)] = SetFields(coll[UpdateFilterID(u)], u)]

\* A delete whose filter matches every document.
DeleteEvery(coll, id) == [i \in {} |-> coll[i]]

\* MongoUsersStorage.DeleteUser: the collection after DeleteOne.
DeleteOne(coll, id) == [i \in DOMAIN coll \ {id} |-> coll[i]]

\* A store whose DeleteOne reports one deleted document whatever it found.
DeletedCountAlwaysOne(coll, id) == 1

\* MongoUsersStorage.DeleteUser: result.DeletedCount
DeletedCount(coll, id) == IF id \in DOMAIN coll THEN 1 ELSE 0

\* ----------------------------------------------------------------- strings
Char(s, i) == SubSeq(s, i, i)

UpperCase == "ABCDEFGHIJKLMNOPQRSTUVWXYZ"
LowerCase == "abcdefghijklmnopqrstuvwxyz"
Digits == "0123456789"

\* The place of character c in alphabet, 0 when it is not in it.
IndexIn(alphabet, c) ==
    IF \E i \in 1..Len(alphabet) : Char(alphabet, i) = c
    THEN CHOOSE i \in 1..Len(alphabet) : Char(alphabet, i) = c
    ELSE 0

\* A conversion that leaves the letters as they are.
NoLower(s) == s

\* strings.ToLower
RECURSIVE ToLower(_)
ToLower(s) ==
    IF s = "" THEN ""
    ELSE LET c == Char(s, 1)
             i == IndexIn(UpperCase, c)
         IN  (IF i = 0 THEN c ELSE Char(LowerCase, i))
                \o ToLower(SubSeq(s, 2, Len(s)))

\* strings.Split(s, sep), for a separator of one character
RECURSIVE Split(_, _)
Split(s, sep) ==
    IF \A i \in 1..Len(s) : Char(s, i) # sep THEN <<s>>
    ELSE LET i == CHOOSE k \in 1..Len(s) :
                    /\ Char(s, k) = sep
                    /\ \A j \in 1..(k - 1) : Char(s, j) # sep
         IN  <<SubSeq(s, 1, i - 1)>> \o Split(SubSeq(s, i + 1, Len(s)), sep)

\* Go's int: two's complement of IntBits bits.
MaxInt == 2 ^ (IntBits - 1) - 1
MinInt == -(2 ^ (IntBits - 1))

\* The value an int holds after an arithmetic result n (wrap-around).
WrapInt(n) == ((n - MinInt) % (2 ^ IntBits)) + MinInt

\* The value of a string of decimal digits, -1 when another character occurs.
RECURSIVE DigitsValue(_, _)
DigitsValue(s, acc) ==
    IF s = "" THEN acc
    ELSE LET d == IndexIn(Digits, Char(s, 1))
         IN  IF d = 0 THEN -1
             ELSE DigitsValue(SubSeq(s, 2, Len(s)), acc * 10 + (d - 1))

\* strconv.Atoi: an optional sign and decimal digits, within the range of int.
Atoi(s) ==
    LET signed == s # "" /\ Char(s, 1) \in {"+", "-"}
        digits == IF signed THEN SubSeq(s, 2, Len(s)) ELSE s
        mag == IF digits = "" THEN -1 ELSE DigitsValue(digits, 0)
        n == IF signed /\ Char(s, 1) = "-" THEN -mag ELSE mag
    IN  IF mag = -1 THEN [err |-> "invalid syntax", n |-> 0]
        ELSE IF n > MaxInt \/ n < MinInt
        THEN [err |-> "value out of range", n |-> 0]
        ELSE [err |-> "", n |-> n]

\* ------------------------------------------------------------- list query
\* Binary string order of the text values of the model (simple collation).
Collation == <<"", "a", "a@x.io", "b", "b@x.io", "nomail">>

Rank(s) == CHOOSE i \in 1..Len(Collation) : Collation[i] = s

SortKey(doc, field) ==
    IF field \notin DOMAIN doc THEN 0
    ELSE IF field \in {"created_at", "updated_at"} THEN doc[field]
    ELSE Rank(doc[field])

FilterNames == {"first_name", "last_name", "nickname", "email", "country"}

\* A filter that carries a clause for every filter field, empty or not.
createGetUsersFilterAllFields(params) ==
    [k \in FilterNames |-> params.filter[k]]

\* createGetUsersFilter: the filter document, one equality clause (field to
\* value) per non-empty filter field.
createGetUsersFilter(params) ==
    [k \in { n \in FilterNames : params.filter[n] # "" } |-> params.filter[k]]

\* The store's reading of a filter document: every clause holds of the
\* document, the value compared exactly.
MatchesFilter(doc, filter) ==
    \A k \in DOMAIN filter : doc[k] = filter[k]

Matches(doc, params) == MatchesFilter(doc, createGetUsersFilter(params))

\* A builder that checks the pagination before the sort field.
createGetUsersOptsErrPaginationFirst(params) ==
    IF params.page_size < 0 THEN "page size cannot be negative number"
    ELSE IF params.page < 0 THEN "page cannot be negative number"
    ELSE IF params.sort.field = "" THEN "sort field is required"
    ELSE ""

\* createGetUsersOpts: "" stands for a nil error.
createGetUsersOptsErr(params) ==
    IF params.sort.field = "" THEN "sort field is required"
    ELSE IF params.page_size < 0 THEN "page size cannot be negative number"
    ELSE IF params.page < 0 THEN "page cannot be negative number"
    ELSE ""

\* createGetUsersOpts: 1 = ascending, -1 = descending
SortType(params) == IF params.sort.type = "desc" THEN -1 ELSE 1

\* int64(params.Page * params.PageSize): the product is taken in int.
Skip(params) == WrapInt(params.page * params.page_size)
Limit(params) == params.page_size

\* createGetUsersOpts: the error, or the options Find is called with.
createGetUsersOpts(params) ==
    IF createGetUsersOptsErr(params) # ""
    THEN [err |-> createGetUsersOptsErr(params), opts |-> <<>>]
    ELSE [err |-> "",
          opts |-> <<[sort |-> <<params.sort.field, SortType(params)>>,
                      limit |-> Limit(params), skip |-> Skip(params)]>>]

\* The orders in which Find may return the matching documents: sorted by the
\* sort field; documents with equal keys come in any order.
SortedResults(coll, params) ==
    LET ids == { i \in DOMAIN coll : Matches(coll[i], params) }
        n == Cardinality(ids)
        InOrder(a, b) ==
            IF SortType(params) = 1
            THEN SortKey(coll[a], params.sort.field) <= SortKey(coll[b], params.sort.field)
            ELSE SortKey(coll[a], params.sort.field) >= SortKey(coll[b], params.sort.field)
    IN  { s \in [1..n -> ids] :
            /\ \A i, j \in 1..n : i < j => s[i] # s[j] /\ InOrder(s[i], s[j]) }

\* Skip and limit applied to an ordered result (limit 0 means no limit).
Page(s, params) ==
    LET from == Skip(params) + 1
        to == IF Limit(params) = 0 THEN Len(s)
              ELSE IF Skip(params) + Limit(params) < Len(s)
                   THEN Skip(params) + Limit(params) ELSE Len(s)
    IN  IF from > Len(s) THEN <<>> ELSE SubSeq(s, from, to)

\* MongoUsersStorage.GetUsers: the slices of users the call may return.
\* The store turns a negative skip away, so Find has no result then.
FindUsers(coll, params) ==
    IF Skip(params) < 0 THEN {}
    ELSE { [i \in 1..Len(Page(s, params)) |-> coll[Page(s, params)[i]]] :
             s \in SortedResults(coll, params) }

\* MongoUsersStorage.GetUsers: the results the call may have.  finds counts
\* the queries sent to the store.
GetUsers(coll, params) ==
    IF createGetUsersOpts(params).err # ""
    THEN { [err |-> createGetUsersOpts(params).err, users |-> <<>>, finds |-> 0] }
    ELSE { [err |-> "find failed", users |-> <<>>, finds |-> 1] }
         \cup { [err |-> "", users |-> found, finds |-> 1] :
                    found \in FindUsers(coll, params) }

NoFilter ==
    [first_name |-> "", last_name |-> "", nickname |-> "", email |-> "",
     country |-> ""]

\* model.GetUsersParams
GetUsersParams(ps, p, f, t, flt) ==
    [page_size |-> ps, page |-> p, sort |-> [field |-> f, type |-> t],
     filter |-> flt]

\* A default sort on the first name.
DefaultSortByFirstName == [field |-> "first_name", type |-> "asc"]

\* parseGetUsersParams: the sort of a query without sortBy.
DefaultSort == [field |-> "last_name", type |-> "asc"]

DefaultParams ==
    GetUsersParams(defaultPageSize, defaultPage, DefaultSort.field,
                   DefaultSort.type, NoFilter)

\* ------------------------------------------------------------ query parser
\* A query string: its parameters in order, each a name and a value.
Param(name, value) == [name |-> name, value |-> value]

\* gin.Context.GetQuery: the first value of the parameter, and whether it is
\* present.
GetQuery(query, name) ==
    LET at == { i \in 1..Len(query) : query[i].name = name }
    IN  IF at = {} THEN [ok |-> FALSE, v |-> ""]
        ELSE [ok |-> TRUE,
              v |-> query[CHOOSE i \in at : \A j \in at : i <= j].value]

supportedSortFields ==
    {"last_name", "first_name", "nickname", "password", "email", "country",
     "created_at", "updated_at"}

\* parseSortBy: err "" stands for a nil error; sort is the *model.Sort.
parseSortBy(sortBy) ==
    LET parts == Split(ToLower(sortBy), ".")
    IN  IF Len(parts) # 2
        THEN [err |-> "invalid sortBy query parameter format", sort |-> <<>>]
        ELSE IF parts[1] \notin supportedSortFields
        THEN [err |-> "unsupported sorting field", sort |-> <<>>]
        ELSE IF parts[2] # "asc" /\ parts[2] # "desc"
        THEN [err |-> "invalid sorting type", sort |-> <<>>]
        ELSE [err |-> "", sort |-> <<[field |-> parts[1], type |-> parts[2]]>>]

\* A filter parser that lower-cases the values.
parseFilterFieldsLowered(query) ==
    [k \in FilterNames |->
        IF GetQuery(query, k).ok THEN ToLower(GetQuery(query, k).v) ELSE ""]

\* parseFilterFields
parseFilterFields(query) ==
    [k \in FilterNames |->
        IF GetQuery(query, k).ok THEN GetQuery(query, k).v ELSE ""]

\* A check that turns zero away too.
IsNotPositive(n) == n <= 0

\* parseGetUsersParams: the check "parsed < 0" of pageSize and of page.
IsNegative(n) == n < 0

\* parseGetUsersParams: err "" stands for a nil error; params is the
\* *model.GetUsersParams, <<>> for nil.
parseGetUsersParams(query) ==
    LET ps == GetQuery(query, "pageSize")
        pg == GetQuery(query, "page")
        sb == GetQuery(query, "sortBy")
        fail(msg) == [err |-> msg, params |-> <<>>]
    IN  IF ps.ok /\ Atoi(ps.v).err # ""
        THEN fail("pageSize query parameter has to be a number")
        ELSE IF ps.ok /\ IsNegative(Atoi(ps.v).n)
        THEN fail("pageSize query parameter has to be a positive number")
        ELSE IF pg.ok /\ Atoi(pg.v).err # ""
        THEN fail("page query parameter has to be a number")
        ELSE IF pg.ok /\ IsNegative(Atoi(pg.v).n)
        THEN fail("page query parameter has to be a positive number")
        ELSE IF sb.ok /\ parseSortBy(sb.v).err # ""
        THEN fail(parseSortBy(sb.v).err)
        ELSE [err |-> "",
              params |-> <<[
                 page_size |-> IF ps.ok THEN Atoi(ps.v).n ELSE defaultPageSize,
                 page |-> IF pg.ok THEN Atoi(pg.v).n ELSE defaultPage,
                 sort |-> IF sb.ok THEN parseSortBy(sb.v).sort[1]
                          ELSE DefaultSort,
                 filter |-> parseFilterFields(query)]>>]

\* The query strings of the list requests of Spec.
ListQueries ==
    { <<>>,
      <<Param("pageSize", "1"), Param("page", "1"),
        Param("sortBy", "updated_at.desc")>>,
      <<Param("pageSize", "0"), Param("sortBy", "Nickname.ASC"),
        Param("country", "a")>>,
      <<Param("page", "-1"), Param("pageSize", "x")>> }

\* ---------------------------------------------------------------- requests
Idle ==
    [pc |-> "idle", op |-> "none", pathID |-> NilUUID, body |-> NoBody,
     user |-> NoBody, storeResult |-> "none", updated |-> <<>>,
     storeCalls |-> 0, produced |-> <<>>, produceResult |-> "none",
     query |-> <<>>, params |-> DefaultParams,
     \* bookkeeping: the clock reading stamped on the user, and the target
     \* document right before and right after the storage call
     reading |-> 0, before |-> <<>>, written |-> <<>>,
     status |-> 0, respBody |-> <<>>, steps |-> <<>>]

ErrBody(msg) == <<[error |-> msg]>>

\* No function call is under evaluation.
NoCall ==
    [fn |-> "none", pc |-> "none", arg |-> <<>>, note |-> <<>>,
     result |-> <<>>]

\* c.JSON(code, body) / c.Status(code): the handler's response.
Respond(q, code, body) ==
    [q EXCEPT !.pc = "done", !.status = code, !.respBody = body,
              !.user = NoBody, !.updated = <<>>, !.query = <<>>,
              !.params = DefaultParams,
              !.steps = Append(q.steps, "respond")]

\* main up to line 66: the server listens, the store and the publisher are
\* connected, nothing is in flight.
Serving ==
    [main |-> "serving", http |-> "listening", active |-> 0,
     mongo |-> "connected", mongoClose |-> "none",
     kafka |-> "open", kafkaClose |-> "none", queued |-> 0,
     wg |-> 0, exited |-> FALSE, code |-> 0]

Init ==
    /\ users = [i \in SeedIDs |-> SeedUser(i)]
    /\ topic = <<>>
    /\ clock = Millisecond
    /\ issued = 0
    /\ reqs = [r \in Reqs |-> Idle]
    /\ call = NoCall
    /\ proc = Serving


\* time.Now(): the clock never runs backwards.
Readings == clock..MaxClock

\* uuid.NewUUID: a version 1 identifier, never handed out before.
NewUUID == Cardinality(SeedIDs) + issued + 1

\* Requests are numbered in the order in which they arrive.
Arrives(r) ==
    /\ reqs[r].pc = "idle"
    /\ \A s \in Reqs : s < r => reqs[s].pc # "idle"

Set(r, q) == reqs' = [reqs EXCEPT ![r] = q]

Step(q, name) == [q EXCEPT !.steps = Append(q.steps, name)]

\* ------------------------------------------------------------------ create
\* A service that stamps updated_at only and keeps the client's created_at.
NewUserKeepingCreatedAt(body, newID, now) ==
    [body EXCEPT !.id = newID, !.updated_at = now]

\* Service.CreateUser up to the storage call: the user handed to the storage.
NewUser(body, newID, now) ==
    [body EXCEPT !.id = newID, !.created_at = now, !.updated_at = now]

\* controller.createUser and Service.CreateUser up to the storage call.
ReceiveCreate(r) ==
    /\ UNCHANGED <<call, proc>>
    /\ Arrives(r)
    /\ UNCHANGED <<users, topic>>
    /\ LET q == [reqs[r] EXCEPT !.op = "create"] IN
       \/ \* BindJSON fails
          /\ Set(r, Respond(q, StatusBadRequest, ErrBody("invalid body")))
          /\ UNCHANGED <<clock, issued>>
       \/ \E b \in Bodies :
            LET qb == [q EXCEPT !.body = b] IN
            IF validateRequiredRequestFields(b) # ""
            THEN /\ Set(r, Respond(qb, StatusBadRequest,
                                   ErrBody(validateRequiredRequestFields(b))))
                 /\ UNCHANGED <<clock, issued>>
            ELSE \/ \* uuid.NewUUID fails
                    /\ Set(r, Respond(qb, StatusInternalServerError,
                                      ErrBody("user not created")))
                    /\ UNCHANGED <<clock, issued>>
                 \/ /\ NewUUID \in IDs
                    /\ issued' = issued + 1
                    /\ \E t \in Readings :
                         /\ clock' = t
                         /\ Set(r, [qb EXCEPT !.pc = "store", !.reading = t,
                                       !.user = NewUser(b, NewUUID, Truncate(t))])

\* Service.CreateUser after storage.CreateUser failed, and the handler's answer.
CreateStoreFailed(q) ==
    Respond([q EXCEPT !.storeResult = "error"], StatusInternalServerError,
            ErrBody("user not created"))

\* MongoUsersStorage.CreateUser and what Service.CreateUser does with its result.
StoreCreate(r) ==
    /\ UNCHANGED <<call, proc>>
    /\ reqs[r].pc = "store" /\ reqs[r].op = "create"
    /\ UNCHANGED <<topic, clock, issued>>
    /\ LET q == [Step(reqs[r], "store") EXCEPT !.storeCalls = @ + 1] IN
       \/ \* InsertOne fails (time-out, connection, duplicate key)
          /\ UNCHANGED users
          /\ Set(r, CreateStoreFailed(q))
       \/ /\ q.user.id \notin DOMAIN users
          /\ users' = InsertOne(users, q.user)
          /\ Set(r, [q EXCEPT !.storeResult = "ok", !.pc = "publish",
                              !.written = <<users'[q.user.id]>>])

\* A service that returns the producer's error to the handler.
CreateProducedFailing(q, produceErr) ==
    IF produceErr
    THEN Respond(q, StatusInternalServerError, ErrBody("user not created"))
    ELSE Respond(q, StatusCreated, <<q.user>>)

\* Service.CreateUser after Produce returned, and the handler's answer.
CreateProduced(q, produceErr) ==
    Respond(q, StatusCreated, <<q.user>>)

\* A service that calls Produce once more when the first call failed.
ProduceWithRetry(q, event, produceErr) ==
    IF produceErr
    THEN [Step(Step(q, "publish"), "publish") EXCEPT
             !.produced = @ \o <<event, event>>, !.produceResult = "error"]
    ELSE [Step(q, "publish") EXCEPT
             !.produced = Append(@, event), !.produceResult = "ok"]

\* KafkaTopicProducer.Produce: the event reaches the topic unless Produce fails.
Produce(q, event, produceErr) ==
    [Step(q, "publish") EXCEPT
        !.produced = Append(@, event),
        !.produceResult = IF produceErr THEN "error" ELSE "ok"]

Accepted(r, event, produceErr) ==
    IF produceErr THEN topic ELSE Append(topic, [by |-> r, event |-> event])

\* Service.CreateUser from the Produce call on.
PublishCreate(r) ==
    /\ UNCHANGED <<call, proc>>
    /\ reqs[r].pc = "publish" /\ reqs[r].op = "create"
    /\ UNCHANGED <<users, clock, issued>>
    /\ \E produceErr \in BOOLEAN :
         LET ev == NewUserCreatedEvent(reqs[r].user) IN
         /\ topic' = Accepted(r, ev, produceErr)
         /\ Set(r, CreateProduced(Produce(reqs[r], ev, produceErr), produceErr))

\* ------------------------------------------------------------------ update
\* A handler that leaves the identifier of the body in place.
UpdateTargetKeepingBodyID(body, userID, now) ==
    [body EXCEPT !.updated_at = now]

\* controller.updateUser (user.ID = userID, user.UpdatedAt = now) and
\* Service.UpdateUser (user.UpdatedAt = now): the user handed to the storage.
UpdateTarget(body, userID, now) ==
    [body EXCEPT !.id = userID, !.updated_at = now]

\* controller.updateUser and Service.UpdateUser up to the storage call.
ReceiveUpdate(r) ==
    /\ UNCHANGED <<call, proc>>
    /\ Arrives(r)
    /\ UNCHANGED <<users, topic, issued>>
    /\ LET q == [reqs[r] EXCEPT !.op = "update"] IN
       \/ \* BindJSON fails
          /\ Set(r, Respond(q, StatusBadRequest, ErrBody("invalid body")))
          /\ UNCHANGED clock
       \/ \E b \in Bodies :
            LET qb == [q EXCEPT !.body = b] IN
            IF validateRequiredRequestFields(b) # ""
            THEN /\ Set(r, Respond(qb, StatusBadRequest,
                                   ErrBody(validateRequiredRequestFields(b))))
                 /\ UNCHANGED clock
            ELSE \E p \in PathIDs :
                 LET qp == [qb EXCEPT !.pathID = p] IN
                 IF p = BadID
                 THEN /\ Set(r, Respond(qp, StatusBadRequest,
                                        ErrBody("incorrect user ID format")))
                      /\ UNCHANGED clock
                 ELSE \E t1 \in Readings : \E t2 \in t1..MaxClock :
                      \* the controller reads the clock, then the service does
                      /\ clock' = t2
                      /\ Set(r, [qp EXCEPT !.pc = "store", !.reading = t2,
                                    !.user = UpdateTarget(
                                        UpdateTarget(b, p, Truncate(t1)),
                                        p, Truncate(t2))])

\* A handler that does not tell NotFoundError from the other errors.
UpdateStoredNotFoundAsFailure(q, result, updated) ==
    LET q1 == [q EXCEPT !.storeResult = result, !.updated = updated] IN
    IF result \in {"ok", "decode"} THEN [q1 EXCEPT !.pc = "publish"]
    ELSE Respond(q1, StatusInternalServerError, ErrBody("user not updated"))

\* Service.UpdateUser on the storage's result, and controller.updateUser on the
\* error the service returns.  A ResponseUnmarshallError is logged and the
\* service goes on to the Produce call with the nil document.
UpdateStored(q, result, updated) ==
    LET q1 == [q EXCEPT !.storeResult = result, !.updated = updated] IN
    IF result \in {"ok", "decode"} THEN [q1 EXCEPT !.pc = "publish"]
    ELSE IF result = "notfound"
    THEN Respond(q1, StatusNotFound, ErrBody("user not found"))
    ELSE Respond(q1, StatusInternalServerError, ErrBody("user not updated"))

\* MongoUsersStorage.UpdateUser and what the service and the handler do next.
StoreUpdate(r) ==
    /\ UNCHANGED <<call, proc>>
    /\ reqs[r].pc = "store" /\ reqs[r].op = "update"
    /\ UNCHANGED <<topic, clock, issued>>
    /\ LET q == [Step(reqs[r], "store") EXCEPT !.storeCalls = @ + 1]
           id == UpdateFilterID(q.user) IN
       \/ \* FindOneAndUpdate fails (time-out, connection)
          /\ UNCHANGED users
          /\ Set(r, UpdateStored(q, "error", <<>>))
       \/ \* mongo.ErrNoDocuments
          /\ id \notin DOMAIN users
          /\ UNCHANGED users
          /\ Set(r, UpdateStored(q, "notfound", <<>>))
       \/ /\ id \in DOMAIN users
          /\ users' = FindOneAndUpdate(users, q.user)
          /\ LET qw == [q EXCEPT !.before = <<users[id]>>,
                                 !.written = <<users'[id]>>] IN
             \/ Set(r, UpdateStored(qw, "ok", <<users'[id]>>))
             \/ \* the write is done, result.Decode fails
                Set(r, UpdateStored(qw, "decode", <<>>))

\* Service.UpdateUser after Produce returned, and the handler's answer.
UpdateProduced(q, produceErr) ==
    Respond(q, StatusNoContent, <<>>)

\* Service.UpdateUser from the Produce call on.  NewUserUpdatedEvent(*updated)
\* dereferences the document: with a nil document the handler panics, and
\* gin.Recovery (main.go) answers 500 with no body.
PublishUpdate(r) ==
    /\ UNCHANGED <<call, proc>>
    /\ reqs[r].pc = "publish" /\ reqs[r].op = "update"
    /\ UNCHANGED <<users, clock, issued>>
    /\ IF reqs[r].updated = <<>>
       THEN /\ UNCHANGED topic
            /\ Set(r, Respond([reqs[r] EXCEPT !.steps = Append(@, "panic")],
                              StatusInternalServerError, <<>>))
       ELSE \E produceErr \in BOOLEAN :
              LET ev == NewUserUpdatedEvent(reqs[r].updated[1]) IN
              /\ topic' = Accepted(r, ev, produceErr)
              /\ Set(r, UpdateProduced(Produce(reqs[r], ev, produceErr),
                                       produceErr))

\* ------------------------------------------------------------------ delete
\* controller.deleteUser up to the service call.
ReceiveDelete(r) ==
    /\ UNCHANGED <<call, proc>>
    /\ Arrives(r)
    /\ UNCHANGED <<users, topic, clock, issued>>
    /\ \E p \in PathIDs :
       LET q == [reqs[r] EXCEPT !.op = "delete", !.pathID = p] IN
       IF p = BadID
       THEN Set(r, Respond(q, StatusBadRequest,
                           ErrBody("incorrect user ID format")))
       ELSE Set(r, [q EXCEPT !.pc = "store"])

\* A service that drops the storage's error and goes on to the Produce call.
DeleteStoredIgnoringError(q, result) ==
    LET q1 == [q EXCEPT !.storeResult = result] IN
    IF result \in {"ok", "error"} THEN [q1 EXCEPT !.pc = "publish"]
    ELSE Respond(q1, StatusNotFound, ErrBody("user not found"))

\* A handler that answers not-found with the status of a bad request.
DeleteStoredNotFoundAsBadRequest(q, result) ==
    LET q1 == [q EXCEPT !.storeResult = result] IN
    IF result = "ok" THEN [q1 EXCEPT !.pc = "publish"]
    ELSE IF result = "notfound"
    THEN Respond(q1, StatusBadRequest, ErrBody("user not found"))
    ELSE Respond(q1, StatusInternalServerError, ErrBody("user not deleted"))

\* Service.DeleteUser on the storage's result, and controller.deleteUser on
\* the error the service returns.
DeleteStored(q, result) ==
    LET q1 == [q EXCEPT !.storeResult = result] IN
    IF result = "ok" THEN [q1 EXCEPT !.pc = "publish"]
    ELSE IF result = "notfound"
    THEN Respond(q1, StatusNotFound, ErrBody("user not found"))
    ELSE Respond(q1, StatusInternalServerError, ErrBody("user not deleted"))

\* MongoUsersStorage.DeleteUser and what the service and the handler do next.
StoreDelete(r) ==
    /\ UNCHANGED <<call, proc>>
    /\ reqs[r].pc = "store" /\ reqs[r].op = "delete"
    /\ UNCHANGED <<topic, clock, issued>>
    /\ LET q == [Step(reqs[r], "store") EXCEPT
                    !.storeCalls = @ + 1,
                    !.before = IF reqs[r].pathID \in DOMAIN users
                               THEN <<users[reqs[r].pathID]>> ELSE <<>>] IN
       \/ \* DeleteOne fails (time-out, connection)
          /\ UNCHANGED users
          /\ Set(r, DeleteStored(q, "error"))
       \/ /\ users' = DeleteOne(users, q.pathID)
          /\ Set(r, DeleteStored(q, IF DeletedCount(users, q.pathID) = 0
                                    THEN "notfound" ELSE "ok"))

\* Service.DeleteUser after Produce returned, and the handler's answer.
DeleteProduced(q, produceErr) ==
    Respond(q, StatusNoContent, <<>>)

\* Service.DeleteUser from the Produce call on.
PublishDelete(r) ==
    /\ UNCHANGED <<call, proc>>
    /\ reqs[r].pc = "publish" /\ reqs[r].op = "delete"
    /\ UNCHANGED <<users, clock, issued>>
    /\ \E produceErr \in BOOLEAN :
         LET ev == NewUserDeletedEvent(reqs[r].pathID) IN
         /\ topic' = Accepted(r, ev, produceErr)
         /\ Set(r, DeleteProduced(Produce(reqs[r], ev, produceErr), produceErr))

\* --------------------------------------------------------------------- get
\* controller.getUser up to the service call.
ReceiveGet(r) ==
    /\ UNCHANGED <<call, proc>>
    /\ Arrives(r)
    /\ UNCHANGED <<users, topic, clock, issued>>
    /\ \E p \in PathIDs :
       LET q == [reqs[r] EXCEPT !.op = "get", !.pathID = p] IN
       IF p = BadID
       THEN Set(r, Respond(q, StatusBadRequest,
                           ErrBody("incorrect user ID format")))
       ELSE Set(r, [q EXCEPT !.pc = "store"])

\* A handler that does not tell NotFoundError from the other errors.
GetStoredNotFoundAsFailure(q, result, found) ==
    LET q1 == [q EXCEPT !.storeResult = result] IN
    IF result = "ok" THEN Respond(q1, StatusOK, found)
    ELSE Respond(q1, StatusInternalServerError, <<>>)

\* Service.GetUserByID on the storage's result, and controller.getUser.
GetStored(q, result, found) ==
    LET q1 == [q EXCEPT !.storeResult = result] IN
    IF result = "ok" THEN Respond(q1, StatusOK, found)
    ELSE IF result = "notfound"
    THEN Respond(q1, StatusNotFound, ErrBody("user not found"))
    ELSE Respond(q1, StatusInternalServerError, <<>>)

\* The effect of a read on the collection and on the topic.
ReadOnly == UNCHANGED <<users, topic>>

\* MongoUsersStorage.GetUser and what the service and the handler do next.
StoreGet(r) ==
    /\ UNCHANGED <<call, proc>>
    /\ reqs[r].pc = "store" /\ reqs[r].op = "get"
    /\ ReadOnly
    /\ UNCHANGED <<clock, issued>>
    /\ LET q == [Step(reqs[r], "store") EXCEPT !.storeCalls = @ + 1] IN
       \/ \* FindOne or Decode fails
          Set(r, GetStored(q, "error", <<>>))
       \/ IF q.pathID \in DOMAIN users
          THEN Set(r, GetStored(q, "ok", <<users[q.pathID]>>))
          ELSE Set(r, GetStored(q, "notfound", <<>>))

\* -------------------------------------------------------------------- list
\* controller.getUsers up to the service call.
ReceiveList(r) ==
    /\ UNCHANGED <<call, proc>>
    /\ Arrives(r)
    /\ UNCHANGED <<users, topic, clock, issued>>
    /\ LET q == [reqs[r] EXCEPT !.op = "list"] IN
       \E query \in ListQueries :
          LET parsed == parseGetUsersParams(query)
              qq == [q EXCEPT !.query = query] IN
          IF parsed.err # ""
          THEN Set(r, Respond(qq, StatusBadRequest, ErrBody(parsed.err)))
          ELSE Set(r, [qq EXCEPT !.pc = "store", !.params = parsed.params[1]])

\* A handler that writes the slice the service returned as it is: the nil
\* slice of an empty result is written as JSON null.
ListBodyOfNil(found) ==
    IF Len(found) = 0 THEN <<[null |-> TRUE]>> ELSE <<[list |-> found]>>

\* getUsers: the body of a 200; an empty result is written as an explicit
\* empty collection ([]), never as the nil slice the storage returned.
ListBody(found) ==
    IF Len(found) = 0 THEN <<[list |-> <<>>]>> ELSE <<[list |-> found]>>

\* MongoUsersStorage.GetUsers and what the service and the handler do next.
\* The descriptor of an answered list stays on record with the request.
StoreList(r) ==
    /\ UNCHANGED <<call, proc>>
    /\ reqs[r].pc = "store" /\ reqs[r].op = "list"
    /\ ReadOnly
    /\ UNCHANGED <<clock, issued>>
    /\ LET q == [Step(reqs[r], "store") EXCEPT !.storeCalls = @ + 1] IN
       \/ \* Find or cursor.All fails
          Set(r, Respond([q EXCEPT !.storeResult = "error"],
                         StatusInternalServerError, <<>>))
       \/ IF createGetUsersOptsErr(q.params) # ""
          THEN Set(r, Respond([q EXCEPT !.storeResult = "error"],
                              StatusInternalServerError, <<>>))
          ELSE \E found \in FindUsers(users, q.params) :
                 Set(r, [Respond([q EXCEPT !.storeResult = "ok"],
                                 StatusOK, ListBody(found))
                            EXCEPT !.params = q.params])

\* ---------------------------------------------------------------- the system
Next ==
    \E r \in Reqs :
        \/ ReceiveCreate(r) \/ StoreCreate(r) \/ PublishCreate(r)
        \/ ReceiveUpdate(r) \/ StoreUpdate(r) \/ PublishUpdate(r)
        \/ ReceiveDelete(r) \/ StoreDelete(r) \/ PublishDelete(r)
        \/ ReceiveGet(r) \/ StoreGet(r)
        \/ ReceiveList(r) \/ StoreList(r)

Spec == Init /\ [][Next]_vars

\* ------------------------------------------------- calls of pure functions
\* A call of function fn with argument arg, not yet evaluated.
Called(fn, arg) ==
    [fn |-> fn, pc |-> "called", arg |-> arg, note |-> <<>>, result |-> <<>>]

\* The function returns result.
Return(result) ==
    /\ call' = [call EXCEPT !.pc = "returned", !.result = result]
    /\ UNCHANGED <<users, topic, clock, issued, reqs, proc>>

Calling(fn) == call.pc = "called" /\ call.fn = fn

\* The users a caller hands to validateRequiredRequestFields.
ValidatorInputs ==
    { User(NilUUID, f, l, n, p, e, c, ZeroTime, ZeroTime) :
        f \in {"", "b"}, l \in {"", "b"}, n \in {"", "b"}, p \in {"", "b"},
        e \in {"", "b@x.io", "nomail"}, c \in {"", "b"} }

CallValidate ==
    /\ Calling("validateRequiredRequestFields")
    /\ Return(validateRequiredRequestFields(call.arg))

\* A parameter that is absent or present with one of the values.
Opt(name, values) == {<<>>} \cup { <<Param(name, v)>> : v \in values }

PageSizeValues == {"0", "13", "+7", "200", "-1", "x", ""}
PageValues == {"0", "4", "-2", "1.5"}

\* The values of sortBy a list query may carry in the calls of
\* parseGetUsersParams.
QuerySortValues ==
    {"first_name.desc", "LAST_NAME.ASC", "bogus.asc", "nickname.up",
     "created_at"}

\* The query strings handed to parseGetUsersParams.
QueryInputs ==
    { ps \o pg \o sb \o nn \o ct \o other :
        ps \in Opt("pageSize", PageSizeValues),
        pg \in Opt("page", PageValues),
        sb \in Opt("sortBy", QuerySortValues),
        nn \in Opt("nickname", {"punisher", "Punisher"}),
        ct \in Opt("country", {"", "UK"}),
        other \in Opt("id", {"7"}) }

CallParseGetUsersParams ==
    /\ Calling("parseGetUsersParams")
    /\ Return(parseGetUsersParams(call.arg))

\* The segments the sortBy values handed to parseSortBy are made of.
SortSegments ==
    {"first_name", "last_name", "nickname", "password", "email", "country",
     "created_at", "updated_at", "Email", "id", "asc", "desc", "Desc", "up",
     ""}

\* The segments put together with the separator between them.
RECURSIVE Join(_, _)
Join(parts, sep) ==
    IF Len(parts) = 1 THEN parts[1]
    ELSE parts[1] \o sep \o Join(Tail(parts), sep)

\* The calls of parseSortBy: the value, with the segments it was made of
\* noted beside it.
SortByInputs ==
    { [Called("parseSortBy", Join(p, ".")) EXCEPT !.note = p] :
        p \in UNION { [1..n -> SortSegments] : n \in 1..MaxParts } }

CallParseSortBy ==
    /\ Calling("parseSortBy")
    /\ Return(parseSortBy(call.arg))

FilterValues == {"", "Ann"}

\* The query strings handed to parseFilterFields.
FilterQueryInputs ==
    { fn \o ln \o nn \o em \o ct \o other :
        fn \in Opt("first_name", FilterValues),
        ln \in Opt("last_name", FilterValues),
        nn \in Opt("nickname", FilterValues),
        em \in Opt("email", FilterValues),
        ct \in Opt("country", FilterValues),
        other \in {<<>>, <<Param("password", "Ann")>>,
                   <<Param("First_Name", "Zed"), Param("page", "x")>>} }

CallParseFilterFields ==
    /\ Calling("parseFilterFields")
    /\ Return(parseFilterFields(call.arg))

\* The descriptors handed to the storage, built by any caller.
DescriptorInputs ==
    { GetUsersParams(ps, pg, f, t, NoFilter) :
        ps \in {-1, 0, 1, 13, 16, MaxInt},
        pg \in {-1, 0, 1, 4, 8, MaxInt},
        f \in {"", "last_name", "created_at"},
        t \in {"", "asc", "desc", "DESC", "up"} }

CallCreateGetUsersOpts ==
    /\ Calling("createGetUsersOpts")
    /\ Return(createGetUsersOpts(call.arg))

FilterTexts == {"", "a", "b"}

\* The descriptors handed to createGetUsersFilter.
FilterDescriptorInputs ==
    { GetUsersParams(defaultPageSize, defaultPage, "last_name", "asc",
                     [first_name |-> f, last_name |-> l, nickname |-> n,
                      email |-> e, country |-> c]) :
        f \in FilterTexts, l \in FilterTexts, n \in FilterTexts,
        e \in {"", "a@x.io"}, c \in FilterTexts }

CallCreateGetUsersFilter ==
    /\ Calling("createGetUsersFilter")
    /\ Return(createGetUsersFilter(call.arg))

\* The contents of the store in the calls of GetUsers: up to MaxID users
\* that differ in nickname and country.
Collections ==
    UNION { [1..n -> {"a", "b"} \X {"a", "b"}] : n \in 0..MaxID }

StoredUsers(content) ==
    [i \in DOMAIN content |->
        User(i, "a", "a", content[i][1], "a", "a@x.io", content[i][2],
             Millisecond, Millisecond)]

\* The descriptors of the list calls on a filled store.
ListDescriptorInputs ==
    { GetUsersParams(ps, pg, "nickname", t, [NoFilter EXCEPT !.country = c]) :
        ps \in {0, 2, 16}, pg \in {0, 1, 16}, t \in {"asc", "desc"},
        c \in {"", "a"} }

\* The pagination parameters of the list requests followed from the parser
\* to the options builder.
PaginationQueryInputs ==
    { ps \o pg :
        ps \in Opt("pageSize", {"0", "4", "13", "16", "127", "-1", "x"}),
        pg \in Opt("page", {"0", "1", "4", "8", "127", "-2", "200"}) }

\* controller.getUsers down to createGetUsersOpts: the parser's result and,
\* for a descriptor the parser accepted, the options the storage builds.
ListOptions(query) ==
    LET parsed == parseGetUsersParams(query) IN
    [parsed |-> parsed,
     built |-> IF parsed.err # "" THEN <<>>
               ELSE <<createGetUsersOpts(parsed.params[1])>>]

CallGetUsersHandler ==
    /\ Calling("getUsers")
    /\ Return(ListOptions(call.arg))

CallGetUsers ==
    /\ Calling("GetUsers")
    /\ \E result \in GetUsers(users, call.arg) : Return(result)

\* A call of fn with one of the arguments.
CallOf(fn, args) == \E a \in args : call = Called(fn, a)

\* One function is called, with one of its arguments.
CallInit ==
    /\ proc = Serving
    /\ topic = <<>>
    /\ clock = Millisecond
    /\ issued = 0
    /\ reqs = [r \in Reqs |-> Idle]
    /\ \/ /\ users = [i \in SeedIDs |-> SeedUser(i)]
          /\ \/ CallOf("validateRequiredRequestFields", ValidatorInputs)
             \/ CallOf("parseGetUsersParams", QueryInputs)
             \/ call \in SortByInputs
             \/ CallOf("parseFilterFields", FilterQueryInputs)
             \/ CallOf("createGetUsersOpts", DescriptorInputs)
             \/ CallOf("createGetUsersFilter", FilterDescriptorInputs)
             \/ CallOf("GetUsers", DescriptorInputs)
             \/ CallOf("getUsers", PaginationQueryInputs)
       \/ /\ \E content \in Collections : users = StoredUsers(content)
          /\ CallOf("GetUsers", ListDescriptorInputs)

CallNext ==
    \/ CallValidate
    \/ CallParseGetUsersParams
    \/ CallParseSortBy
    \/ CallParseFilterFields
    \/ CallCreateGetUsersOpts
    \/ CallCreateGetUsersFilter
    \/ CallGetUsers
    \/ CallGetUsersHandler

CallSpec == CallInit /\ [][CallNext]_vars

\* ----------------------------------------------------------------- shutdown
MaxActive == 3
MaxQueued == 3

\* A step of the process: it has not exited, and the requests' state stays.
ProcStep(next) ==
    /\ ~proc.exited
    /\ proc' = next
    /\ UNCHANGED <<users, topic, clock, issued, reqs, call>>

\* logrus.Fatal: the entry is logged and the process exits with os.Exit(1);
\* no deferred call and no other goroutine runs on.
Fatal == [proc EXCEPT !.exited = TRUE, !.code = 1]

\* httpServer.ListenAndServe: a request is accepted.
Accept ==
    /\ proc.http = "listening" /\ proc.active < MaxActive
    /\ ProcStep([proc EXCEPT !.active = @ + 1])

\* A handler returns; a mutation has handed an event to the producer's queue.
Handle ==
    /\ proc.active > 0
    /\ \E n \in {0, 1} :
          /\ proc.queued + n <= MaxQueued
          /\ ProcStep([proc EXCEPT !.active = @ - 1, !.queued = @ + n])

\* The Kafka client delivers a queued event (reported to logEvents).
Deliver ==
    /\ proc.kafka = "open" /\ proc.queued > 0
    /\ ProcStep([proc EXCEPT !.queued = @ - 1])

\* main: SIGTERM or SIGINT arrives and gracefulShutdown is called.
Signal ==
    /\ proc.main = "serving"
    /\ ProcStep([proc EXCEPT !.main = "shutdown"])

\* server.Shutdown: the listeners are closed first.
ShutdownHTTPBegins ==
    /\ proc.main = "shutdown" /\ proc.http = "listening"
    /\ ProcStep([proc EXCEPT !.http = "draining"])

\* server.Shutdown returns nil once no request is in flight.
ShutdownHTTPReturns ==
    /\ proc.main = "shutdown" /\ proc.http = "draining" /\ proc.active = 0
    /\ ProcStep([proc EXCEPT !.http = "closed", !.main = "spawnMongo"])

\* server.Shutdown returns the context's error when HTTPGracefulShutdownTimeout
\* passes with requests in flight: logrus.Fatal.
ShutdownHTTPFails ==
    /\ proc.main = "shutdown" /\ proc.http = "draining" /\ proc.active > 0
    /\ ProcStep(Fatal)

\* gracefulShutdown: shutdownWG.Add(1) and the goroutine that disconnects
\* from mongo.
SpawnMongo ==
    /\ proc.main = "spawnMongo"
    /\ ProcStep([proc EXCEPT !.wg = @ + 1, !.mongoClose = "started",
                             !.main = "spawnKafka"])

\* gracefulShutdown: shutdownWG.Add(1) and the goroutine that closes the
\* Kafka producer.
SpawnKafka ==
    /\ proc.main = "spawnKafka"
    /\ ProcStep([proc EXCEPT !.wg = @ + 1, !.kafkaClose = "started",
                             !.main = "wait"])

\* The first goroutine: mongoClient.Disconnect returns nil and the deferred
\* shutdownWG.Done runs, or it returns an error: logrus.Fatal.
MongoDisconnect ==
    /\ proc.mongoClose = "started"
    /\ \/ ProcStep([proc EXCEPT !.mongo = "disconnected",
                                !.mongoClose = "done", !.wg = @ - 1])
       \/ ProcStep(Fatal)

\* KafkaProducer.Close: Flush returns when the queue is empty or when
\* KafkaGracefulShutdownTimeout has passed.
KafkaFlush ==
    /\ proc.kafkaClose = "started"
    /\ \E left \in {0, proc.queued} :
          ProcStep([proc EXCEPT !.kafkaClose = "flushed", !.queued = left])

\* KafkaProducer.Close: p.Close drops what is still queued.
KafkaClose ==
    /\ proc.kafkaClose = "flushed"
    /\ ProcStep([proc EXCEPT !.kafka = "closed", !.kafkaClose = "closed",
                             !.queued = 0])

\* KafkaProducer.Close: eventsWG.Wait returns; the second goroutine's deferred
\* shutdownWG.Done runs.
KafkaClosed ==
    /\ proc.kafkaClose = "closed"
    /\ ProcStep([proc EXCEPT !.kafkaClose = "done", !.wg = @ - 1])

\* gracefulShutdown: shutdownWG.Wait returns.
Wait ==
    /\ proc.main = "wait" /\ proc.wg = 0
    /\ ProcStep([proc EXCEPT !.main = "returned"])

\* main: os.Exit(0) after gracefulShutdown.
Exit ==
    /\ proc.main = "returned"
    /\ ProcStep([proc EXCEPT !.exited = TRUE])

ShutdownNext ==
    \/ Accept \/ Handle \/ Deliver
    \/ Signal
    \/ ShutdownHTTPBegins \/ ShutdownHTTPReturns \/ ShutdownHTTPFails
    \/ SpawnMongo \/ SpawnKafka
    \/ MongoDisconnect
    \/ KafkaFlush \/ KafkaClose \/ KafkaClosed
    \/ Wait \/ Exit

ShutdownSpec == Init /\ [][ShutdownNext]_vars

\* ================================================================== claims
Mutations == {"create", "update", "delete"}

\* The events of the topic that request r produced.
PublishedBy(r) == { i \in DOMAIN topic : topic[i].by = r }

\* The answer a mutation gives when its Produce call returns no error.
SuccessStatus(q) ==
    IF q.op = "create" THEN StatusCreated ELSE StatusNoContent

SuccessBody(q) == IF q.op = "create" THEN <<q.user>> ELSE <<>>

\* C1: for create, update and delete, once the store write succeeded, the
\* answer after the Produce call is the success answer (201 with the created
\* user, 204 for update and delete) whether Produce returned an error or not,
\* and the Produce step leaves the collection as the write left it.
C1_PublishFailureSwallowed ==
    [][\A r \in Reqs :
         (reqs[r].pc = "publish" /\ reqs'[r].produceResult # "none") =>
            /\ reqs[r].op \in Mutations
            /\ reqs[r].storeResult = "ok"
            /\ users' = users
            /\ reqs'[r].pc = "done"
            /\ reqs'[r].status = SuccessStatus(reqs[r])
            /\ reqs'[r].respBody = SuccessBody(reqs[r])]_vars

C1_Witness ==
    \E r \in Reqs :
        /\ reqs[r].pc = "done" /\ reqs[r].op = "create"
        /\ reqs[r].storeResult = "ok" /\ reqs[r].produceResult = "error"
        /\ reqs[r].status = StatusCreated
        /\ reqs[r].written # <<>> /\ reqs[r].respBody = reqs[r].written
        /\ PublishedBy(r) = {}

\* C2: an update whose store write succeeded and whose result could not be
\* decoded is answered 204, and no event is handed to the producer.
C2_DecodeFailureIsSuccess ==
    \A r \in Reqs :
        (reqs[r].pc = "done" /\ reqs[r].op = "update"
            /\ reqs[r].storeResult = "decode") =>
            /\ reqs[r].status = StatusNoContent
            /\ reqs[r].produced = <<>>

\* C3: a create, update or delete whose store call failed with a generic
\* error is answered 500 and never calls the producer.
C3_StoreFailureNoPublish ==
    \A r \in Reqs :
        (reqs[r].op \in Mutations /\ reqs[r].storeResult = "error") =>
            /\ reqs[r].pc = "done"
            /\ reqs[r].status = StatusInternalServerError
            /\ reqs[r].produced = <<>>
            /\ reqs[r].produceResult = "none"
            /\ PublishedBy(r) = {}

C3_Witness ==
    \E r \in Reqs :
        /\ reqs[r].op = "delete" /\ reqs[r].storeResult = "error"
        /\ reqs[r].before # <<>>
        /\ reqs[r].status = StatusInternalServerError

PublishedExactly(r, n, ev) ==
    /\ Cardinality(PublishedBy(r)) = n
    /\ \A i \in PublishedBy(r) : topic[i].event = ev

C6_CreateServerFields ==
    \A r \in Reqs :
        (reqs[r].op = "create" /\ reqs[r].storeResult = "ok") =>
            LET w == reqs[r].written[1]
                b == reqs[r].body
            IN  /\ w.id \notin SeedIDs \cup {NilUUID, b.id}
                /\ \A s \in Reqs \ {r} :
                     (reqs[s].op = "create" /\ reqs[s].storeResult = "ok")
                        => reqs[s].written[1].id # w.id
                /\ w.created_at = Truncate(reqs[r].reading)
                /\ w.updated_at = w.created_at
                /\ reqs[r].reading <= clock
                /\ w.created_at # b.created_at
                /\ w.updated_at # b.updated_at
                /\ SameTexts(w, b)
                /\ reqs[r].pc = "done" =>
                     /\ reqs[r].status = StatusCreated
                     /\ reqs[r].respBody = <<w>>

C6_Witness ==
    \E r \in Reqs :
        /\ reqs[r].pc = "done" /\ reqs[r].op = "create"
        /\ reqs[r].status = StatusCreated
        /\ reqs[r].body.id # NilUUID
        /\ reqs[r].body.created_at = ClientTime
        /\ reqs[r].respBody[1].id # reqs[r].body.id
        /\ \E s \in Reqs \ {r} :
             reqs[s].op = "create" /\ reqs[s].status = StatusCreated

EventTag(q) == IF q.op = "create" THEN "created" ELSE "updated"

C8_UpdateKeepsCreatedAt ==
    \A r \in Reqs :
        (reqs[r].op = "update" /\ reqs[r].storeResult \in {"ok", "decode"}) =>
            LET b == reqs[r].before[1]
                w == reqs[r].written[1]
            IN  /\ w.created_at = b.created_at
                /\ w.id = b.id
                /\ SameTexts(w, reqs[r].body)
                /\ w.updated_at = Truncate(reqs[r].reading)

C8_Witness ==
    \E r \in Reqs :
        /\ reqs[r].op = "update" /\ reqs[r].storeResult = "ok"
        /\ reqs[r].body.created_at # reqs[r].before[1].created_at
        /\ reqs[r].body.first_name # reqs[r].before[1].first_name
        /\ reqs[r].written[1].updated_at # reqs[r].before[1].updated_at

\* C9: the storage step of an update reads and writes the record whose
\* identifier is the path's: every other record is left as it was, no record
\* is added or removed, and the identifier of the body selects nothing.
C9_UpdateByPathID ==
    [][\A r \in Reqs :
         (reqs[r].pc = "store" /\ reqs[r].op = "update"
             /\ reqs'[r].pc # "store") =>
            LET p == reqs[r].pathID IN
            /\ DOMAIN users' = DOMAIN users
            /\ \A i \in DOMAIN users \ {p} : users'[i] = users[i]
            /\ reqs'[r].storeResult = "notfound" => p \notin DOMAIN users
            /\ reqs'[r].storeResult \in {"ok", "decode"} =>
                 /\ p \in DOMAIN users
                 /\ reqs'[r].before = <<users[p]>>
                 /\ reqs'[r].written = <<users'[p]>>
                 /\ users'[p].id = p]_vars

C9_Witness ==
    \E r \in Reqs :
        /\ reqs[r].op = "update" /\ reqs[r].storeResult = "ok"
        /\ reqs[r].body.id # reqs[r].pathID
        /\ reqs[r].body.id \in DOMAIN users
        /\ reqs[r].written[1].id = reqs[r].pathID

C11_BadRequestTouchesNothing ==
    [][\A r \in Reqs :
         (reqs'[r].status = StatusBadRequest /\ reqs[r].status # StatusBadRequest) =>
            /\ reqs[r].pc = "idle"
            /\ reqs'[r].pc = "done"
            /\ users' = users
            /\ topic' = topic
            /\ reqs'[r].storeCalls = 0
            /\ reqs'[r].produced = <<>>
            /\ reqs'[r].steps = <<"respond">>
            /\ PublishedBy(r) = {}]_vars

C11_Witness ==
    \E r, s \in Reqs :
        /\ reqs[r].op = "update" /\ reqs[r].status = StatusBadRequest
        /\ validateRequiredRequestFields(reqs[r].body) = ""
        /\ reqs[r].pathID = BadID
        /\ reqs[s].op = "list" /\ reqs[s].status = StatusBadRequest
        /\ reqs[s].respBody =
               ErrBody("pageSize query parameter has to be a number")
        /\ users = [i \in SeedIDs |-> SeedUser(i)]
        /\ topic = <<>>

Returned(fn) == call.pc = "returned" /\ call.fn = fn

\* The rules of the validator in their order: whether user u violates rule i,
\* and the message of rule i.
RuleViolated(i, u) ==
    CASE i = 1 -> u.first_name = ""
      [] i = 2 -> u.last_name = ""
      [] i = 3 -> u.nickname = ""
      [] i = 4 -> u.password = ""
      [] i = 5 -> u.email = ""
      [] i = 6 -> ~ParseAddressOK(u.email)
      [] i = 7 -> u.country = ""

RuleMessage ==
    <<"first name is required", "last name is required",
      "nickname is required", "password is required", "email is required",
      "email is invalid", "country is required">>

\* C12: the validator returns no error exactly when the six text fields are
\* non-empty and the e-mail is well-formed; otherwise it returns the message
\* of the first violated rule in the order first name, last name, nickname,
\* password, e-mail empty, e-mail malformed, country.
C12_ValidatorFirstRule ==
    Returned("validateRequiredRequestFields") =>
        LET u == call.arg
            bad == { i \in 1..7 : RuleViolated(i, u) }
        IN  /\ call.result = "" <=>
                 /\ \A k \in TextFields : u[k] # ""
                 /\ ParseAddressOK(u.email)
            /\ bad = {} => call.result = ""
            /\ bad # {} =>
                 call.result = RuleMessage[CHOOSE i \in bad : \A j \in bad : i <= j]

C12_Witness ==
    /\ Returned("validateRequiredRequestFields")
    /\ call.arg.first_name = "" /\ call.arg.last_name = ""
    /\ call.arg.email = "nomail"
    /\ call.result = "first name is required"

\* C13: every record of the collection, and every record a create or an
\* update wrote, has its six text fields non-empty.
C13_StoredTextsNonEmpty ==
    /\ \A i \in DOMAIN users : \A k \in TextFields : users[i][k] # ""
    /\ \A r \in Reqs :
         reqs[r].written # <<>> =>
            /\ reqs[r].op \in {"create", "update"}
            /\ \A k \in TextFields : reqs[r].written[1][k] # ""

C13_Witness ==
    \E r, s \in Reqs :
        /\ reqs[r].op = "create" /\ reqs[r].storeResult = "ok"
        /\ reqs[s].op = "update" /\ reqs[s].storeResult = "ok"
        /\ reqs[r].written[1].id \in DOMAIN users
        /\ reqs[s].written[1].id \in DOMAIN users
        /\ reqs[s].written[1].id # reqs[r].written[1].id

\* C14: every record of the collection has updated_at >= created_at.
C14_UpdatedNotBeforeCreated ==
    \A i \in DOMAIN users : users[i].updated_at >= users[i].created_at

\* The integer a decimal numeral of the calls denotes.
NumberOf ==
    ("0" :> 0) @@ ("4" :> 4) @@ ("13" :> 13) @@ ("+7" :> 7) @@ ("200" :> 200)
    @@ ("-1" :> -1) @@ ("-2" :> -2)

\* The sort a well-formed sortBy value of the calls denotes.
SortOf ==
    ("first_name.desc" :> [field |-> "first_name", type |-> "desc"])
    @@ ("LAST_NAME.ASC" :> [field |-> "last_name", type |-> "asc"])

ValidNumber(v) ==
    v \in DOMAIN NumberOf /\ NumberOf[v] >= 0 /\ NumberOf[v] <= MaxInt

\* Every parameter of the query that is present is valid.
AllPresentValid(query) ==
    \A i \in 1..Len(query) :
        /\ query[i].name \in {"pageSize", "page"} => ValidNumber(query[i].value)
        /\ query[i].name = "sortBy" => query[i].value \in DOMAIN SortOf

Present(query, name) == \E i \in 1..Len(query) : query[i].name = name

\* The value of the parameter, which occurs once in the queries of the calls.
Given(query, name) ==
    query[CHOOSE i \in 1..Len(query) : query[i].name = name].value

\* C15: parsing a query in which every present parameter is valid gives no
\* error and the descriptor that holds the given value of each present
\* parameter and the default of each absent one: page size 20, page 0, sort
\* last_name ascending, no filter.
C15_ParsedDescriptor ==
    (Returned("parseGetUsersParams") /\ AllPresentValid(call.arg)) =>
        LET q == call.arg IN
        /\ call.result.err = ""
        /\ call.result.params =
             <<[page_size |-> IF Present(q, "pageSize")
                              THEN NumberOf[Given(q, "pageSize")] ELSE 20,
                page |-> IF Present(q, "page")
                         THEN NumberOf[Given(q, "page")] ELSE 0,
                sort |-> IF Present(q, "sortBy") THEN SortOf[Given(q, "sortBy")]
                         ELSE [field |-> "last_name", type |-> "asc"],
                filter |-> [k \in FilterNames |->
                              IF Present(q, k) THEN Given(q, k) ELSE ""]]>>

C15_Witness ==
    /\ Returned("parseGetUsersParams")
    /\ call.arg = <<Param("pageSize", "13"), Param("page", "4"),
                    Param("sortBy", "first_name.desc"),
                    Param("nickname", "punisher")>>
    /\ call.result.err = ""
    /\ call.result.params[1].page_size = 13
    /\ call.result.params[1].page = 4
    /\ call.result.params[1].sort = [field |-> "first_name", type |-> "desc"]
    /\ call.result.params[1].filter =
           [NoFilter EXCEPT !.nickname = "punisher"]

\* The value is a numeral of an integer that an int can hold.
MachineInt(v) ==
    v \in DOMAIN NumberOf /\ NumberOf[v] >= MinInt /\ NumberOf[v] <= MaxInt

\* The message for each malformed sortBy value of the calls.
SortError ==
    ("bogus.asc" :> "unsupported sorting field")
    @@ ("nickname.up" :> "invalid sorting type")
    @@ ("created_at" :> "invalid sortBy query parameter format")

\* The message for a pageSize or page value that is no integer or is negative.
NumberError(name, v) ==
    IF MachineInt(v) THEN name \o " query parameter has to be a positive number"
    ELSE name \o " query parameter has to be a number"

LowerOf(seg) ==
    IF seg = "Email" THEN "email" ELSE IF seg = "Desc" THEN "desc" ELSE seg

AllowListed ==
    {"first_name", "last_name", "nickname", "password", "email", "country",
     "created_at", "updated_at"}

\* C17: a sortBy value is accepted exactly when it has two "."-separated
\* segments of which, lower-cased, the first is one of the 8 allow-listed
\* fields and the second is asc or desc, and the result is the lower-cased
\* pair; otherwise the error is the first of: segment count, field, direction.
C17_SortBy ==
    Returned("parseSortBy") =>
        LET p == call.note
            field == LowerOf(p[1])
            accepted == /\ Len(p) = 2
                        /\ field \in AllowListed
                        /\ LowerOf(p[2]) \in {"asc", "desc"}
        IN  /\ call.result.err = "" <=> accepted
            /\ accepted =>
                 call.result.sort = <<[field |-> field, type |-> LowerOf(p[2])]>>
            /\ ~accepted =>
                 /\ call.result.sort = <<>>
                 /\ call.result.err =
                      IF Len(p) # 2 THEN "invalid sortBy query parameter format"
                      ELSE IF field \notin AllowListed
                      THEN "unsupported sorting field"
                      ELSE "invalid sorting type"

C17_Witness ==
    /\ Returned("parseSortBy")
    /\ call.arg = "Email.Desc"
    /\ call.result.err = ""
    /\ call.result.sort = <<[field |-> "email", type |-> "desc"]>>

\* C18: for each of the five filterable fields the filter holds the value of
\* the query parameter of that name as given, and "" when the parameter is
\* absent; the parameters of any other name change nothing.
C18_FilterVerbatim ==
    Returned("parseFilterFields") =>
        /\ DOMAIN call.result =
             {"first_name", "last_name", "nickname", "email", "country"}
        /\ \A k \in DOMAIN call.result :
             call.result[k] =
                IF Present(call.arg, k) THEN Given(call.arg, k) ELSE ""

C18_Witness ==
    /\ Returned("parseFilterFields")
    /\ Present(call.arg, "First_Name") /\ ~Present(call.arg, "email")
    /\ Present(call.arg, "country") /\ Given(call.arg, "country") = ""
    /\ call.result.first_name = "Ann"
    /\ call.result.email = ""

\* The error the builder is to give for a descriptor, with the given texts
\* for a negative page size and a negative page.
BuilderError(params, negativeSize, negativePage) ==
    IF params.sort.field = "" THEN "sort field is required"
    ELSE IF params.page_size < 0 THEN negativeSize
    ELSE IF params.page < 0 THEN negativePage
    ELSE ""

\* The builder and the storage call fail with the error, sending no query.
FailsWith(err) ==
    /\ Returned("createGetUsersOpts") =>
         /\ call.result.err = err
         /\ err # "" => call.result.opts = <<>>
    /\ (Returned("GetUsers") /\ err # "") =>
         /\ call.result.err = err
         /\ call.result.finds = 0
         /\ call.result.users = <<>>

\* C19 as stated: the builder fails with "sort field is required" for an empty
\* sort field, before the pagination checks, and for a negative page size or
\* page with the text the parser uses for negative values; no query is sent.
C19_BuilderOriginal ==
    (call.pc = "returned" /\ call.fn \in {"createGetUsersOpts", "GetUsers"}) =>
        FailsWith(BuilderError(call.arg,
            "pageSize query parameter has to be a positive number",
            "page query parameter has to be a positive number"))

\* C19: the builder fails with "sort field is required" for an empty sort
\* field, before the pagination checks, with "page size cannot be negative
\* number" for a negative page size and with "page cannot be negative number"
\* for a negative page; in every failing case no query is sent to the store.
C19_Builder ==
    (call.pc = "returned" /\ call.fn \in {"createGetUsersOpts", "GetUsers"}) =>
        FailsWith(BuilderError(call.arg,
            "page size cannot be negative number",
            "page cannot be negative number"))

C19_Witness ==
    /\ Returned("GetUsers")
    /\ call.arg.sort.field = "" /\ call.arg.page_size < 0 /\ call.arg.page < 0
    /\ call.result.err = "sort field is required"
    /\ call.result.finds = 0

\* C20: for every descriptor the builder accepts the options are: sort on the
\* descriptor's field, descending (-1) for direction "desc" and ascending (1)
\* for every other direction; limit = pageSize; skip = page x pageSize; with
\* pageSize 0 the limit is 0 (no limit) and the skip is 0.
C20_BuilderOptions ==
    (Returned("createGetUsersOpts") /\ call.result.err = "") =>
        LET params == call.arg
            opts == call.result.opts[1]
        IN  /\ opts.sort =
                 <<params.sort.field, IF params.sort.type = "desc" THEN -1 ELSE 1>>
            /\ opts.limit = params.page_size
            /\ opts.skip = params.page * params.page_size
            /\ params.page_size = 0 => (opts.limit = 0 /\ opts.skip = 0)

\* Records of every mix of the texts a filter may ask for.
AnyRecords ==
    { User(1, f, l, n, "a", e, c, Millisecond, Millisecond) :
        f \in FilterTexts, l \in FilterTexts, n \in FilterTexts,
        e \in {"", "a@x.io"}, c \in FilterTexts }

\* The filter fields of the descriptor that carry a value.
NonEmptyFilters(params) == { k \in FilterNames : params.filter[k] # "" }

\* C21: the filter built from a descriptor holds one exact-match equality
\* clause for each non-empty filter field and none for an empty one, so an
\* empty field constrains nothing; with no non-empty field the filter is empty
\* and matches every record.
C21_FilterClauses ==
    Returned("createGetUsersFilter") =>
        LET params == call.arg
            made == call.result
        IN  /\ DOMAIN made = NonEmptyFilters(params)
            /\ \A k \in NonEmptyFilters(params) : made[k] = params.filter[k]
            /\ \A doc \in AnyRecords :
                   MatchesFilter(doc, made) <=>
                       \A k \in NonEmptyFilters(params) : doc[k] = params.filter[k]
            /\ NonEmptyFilters(params) = {} =>
                   /\ DOMAIN made = {}
                   /\ \A doc \in AnyRecords : MatchesFilter(doc, made)

C21_Witness ==
    /\ Returned("createGetUsersFilter")
    /\ call.arg.filter = [NoFilter EXCEPT !.nickname = "a"]
    /\ DOMAIN call.result = {"nickname"}
    /\ call.result["nickname"] = "a"

\* The records of the store that match every non-empty filter field.
MatchingIDs(coll, params) ==
    { i \in DOMAIN coll :
        \A k \in NonEmptyFilters(params) : coll[i][k] = params.filter[k] }

\* The sequences of all matching records, ordered by the sort field in the
\* requested direction.
Orderings(coll, params) ==
    LET ids == MatchingIDs(coll, params)
        n == Cardinality(ids)
        key(i) == SortKey(coll[i], params.sort.field)
    IN  { s \in [1..n -> ids] :
            \A i, j \in 1..n : i < j =>
                /\ s[i] # s[j]
                /\ IF params.sort.type = "desc" THEN key(s[i]) >= key(s[j])
                   ELSE key(s[i]) <= key(s[j]) }

\* The records at positions [from, from + size) of s, counted from 0.
Positions(s, from, size) ==
    LET rest == IF from >= Len(s) THEN 0 ELSE Len(s) - from
        n == IF size < rest THEN size ELSE rest
    IN  [i \in 1..n |-> s[from + i]]

\* The page of the claim: positions [page x pageSize, page x pageSize +
\* pageSize) of the ordered matching records, all of them for pageSize 0.
PageOf(coll, s, params) ==
    LET ids == IF params.page_size = 0 THEN s
               ELSE Positions(s, params.page * params.page_size, params.page_size)
    IN  [i \in 1..Len(ids) |-> coll[ids[i]]]

ListedAsClaimed ==
    \E s \in Orderings(users, call.arg) :
        call.result.users = PageOf(users, s, call.arg)

\* C22: for any store content and any accepted descriptor, a list call that
\* the store answers returns the records matching every non-empty filter,
\* ordered by the sort field in the requested direction, restricted to the
\* positions [page x pageSize, page x pageSize + pageSize) for pageSize > 0,
\* and all matching records for pageSize 0.
C22_ListPage ==
    (Returned("GetUsers") /\ call.result.err = "") => ListedAsClaimed

\* Request r is a list request whose store call returns in this step.
ListAnswered(r) ==
    /\ reqs[r].pc = "store" /\ reqs[r].op = "list"
    /\ reqs'[r].pc = "done" /\ reqs'[r].storeResult = "ok"

\* C23: a list request whose query matches no record of the store is answered
\* with 200 and an empty collection; the empty result is never reported as an
\* error or as not-found.
C23_EmptyList ==
    [][\A r \in Reqs :
          (ListAnswered(r) /\ MatchingIDs(users, reqs[r].params) = {}) =>
              /\ reqs'[r].status = StatusOK
              /\ reqs'[r].respBody = <<[list |-> <<>>]>>]_vars

C23_Witness ==
    \E r \in Reqs :
        /\ reqs[r].op = "list" /\ reqs[r].pc = "done"
        /\ reqs[r].storeResult = "ok"
        /\ reqs[r].params.page_size = 0
        /\ reqs[r].params.filter.country = "a"
        /\ reqs[r].status = StatusOK
        /\ reqs[r].respBody = <<[list |-> <<>>]>>

\* A goroutine of gracefulShutdown has begun to close the store connection
\* or the publisher.
ClosingBegun == proc.mongoClose # "none" \/ proc.kafkaClose # "none"

BothClosed == proc.mongoClose = "done" /\ proc.kafkaClose = "done"

\* C24: on shutdown the HTTP server is stopped first and only then the closing
\* of the store connection and of the publisher begins, and the process does
\* not exit before both closes have finished, on every path through the
\* shutdown routine.
C24_Shutdown ==
    /\ ClosingBegun => (proc.http = "closed" /\ proc.active = 0)
    /\ proc.exited => BothClosed

\* The positions of the step in the request's record of steps.
StepsOf(r, name) == { i \in DOMAIN reqs[r].steps : reqs[r].steps[i] = name }

\* C25: within one mutation request the steps are strictly ordered store
\* write, publish attempt, response: a publish attempt happens only after the
\* request's store write has returned success, the response to a request whose
\* store write succeeded is sent only after the publish call has returned, and
\* a request makes at most one publish attempt (a failed publish is not
\* retried).
C25_StepOrder ==
    \A r \in Reqs :
        reqs[r].op \in Mutations =>
            LET st == reqs[r].steps IN
            /\ \A i \in StepsOf(r, "publish") :
                   /\ i > 1 /\ st[i - 1] = "store"
                   /\ reqs[r].storeResult = "ok"
            /\ \A i \in StepsOf(r, "respond") : i = Len(st)
            /\ Cardinality(StepsOf(r, "store")) <= 1
            /\ Cardinality(StepsOf(r, "publish")) <= 1
            /\ Len(reqs[r].produced) = Cardinality(StepsOf(r, "publish"))
            /\ Cardinality(PublishedBy(r)) <= 1
            /\ PublishedBy(r) # {} => StepsOf(r, "publish") # {}
            /\ reqs[r].produceResult # "none" <=> StepsOf(r, "publish") # {}
            /\ (reqs[r].pc = "done" /\ reqs[r].storeResult = "ok") =>
                   st = <<"store", "publish", "respond">>

C25_Witness ==
    \E r \in Reqs :
        /\ reqs[r].op = "update" /\ reqs[r].pc = "done"
        /\ reqs[r].storeResult = "ok" /\ reqs[r].produceResult = "error"
        /\ reqs[r].steps = <<"store", "publish", "respond">>
        /\ Len(reqs[r].produced) = 1

\* The delete requests for user p.
Deletes(p) == { r \in Reqs : reqs[r].op = "delete" /\ reqs[r].pathID = p }

\* The "deleted" events of the topic for user p.
DeletedEvents(p) ==
    { i \in DOMAIN topic :
        /\ topic[i].event.action = "deleted"
        /\ topic[i].event.user_data.id = p }

\* All delete requests for p have been answered, the user existed when the
\* first of them reached the store, and every store call and every publish
\* call of theirs returned without an error.
DeletesFinished(p) ==
    /\ \E r \in Deletes(p) : reqs[r].before # <<>>
    /\ \A r \in Deletes(p) :
          /\ reqs[r].pc = "done"
          /\ reqs[r].storeResult \in {"ok", "notfound"}
          /\ reqs[r].produceResult # "error"

EventsOf(tag, p) ==
    { i \in DOMAIN topic :
        /\ topic[i].event.action = tag
        /\ topic[i].event.user_data.id = p }

\* The update requests for user p that the store carried out.
StoredUpdates(p) ==
    { r \in Reqs : /\ reqs[r].op = "update" /\ reqs[r].pathID = p
                   /\ reqs[r].storeResult = "ok" }

\* No "updated" event of user p follows a "deleted" event of p in the topic.
NoUpdatedAfterDeleted(p) ==
    \A i \in EventsOf("deleted", p) : \A j \in EventsOf("updated", p) : j < i

\* Once two updates of p are stored and published, the "updated" event
\* published last carries the record the store holds.
LastUpdatedIsStored(p) ==
    (/\ p \in DOMAIN users
     /\ Cardinality(StoredUpdates(p)) >= 2
     /\ \A r \in StoredUpdates(p) :
           reqs[r].pc = "done" /\ reqs[r].produceResult = "ok") =>
        LET last == CHOOSE i \in EventsOf("updated", p) :
                        \A j \in EventsOf("updated", p) : j <= i
        IN  topic[last].event = NewUserUpdatedEvent(users[p])

\* C27: events are published in the order in which their store writes took
\* effect: an "updated" event is never published after the "deleted" event of
\* the same user, and of two "updated" events of one user the one published
\* last carries the state the store holds last.
C27_PublishOrder ==
    \A p \in IDs : NoUpdatedAfterDeleted(p) /\ LastUpdatedIsStored(p)

\* C28: with a clock that never goes back, the updated_at of a stored user
\* never decreases: every store write of any interleaving of concurrent
\* updates leaves updated_at at or above its previous value.
C28_UpdatedAtMonotone ==
    [][\A p \in DOMAIN users \cap DOMAIN users' :
          users'[p].updated_at >= users[p].updated_at]_vars

\* The identifier a mutation request at its store call is about.
Target(r) ==
    IF reqs[r].op = "create" THEN reqs[r].user.id ELSE reqs[r].pathID

\* Request r is a mutation and takes a step.
Mutates(r) == reqs'[r] # reqs[r] /\ reqs'[r].op \in Mutations

\* The store holds the same record under identifier i before and after.
Untouched(i) ==
    /\ i \in DOMAIN users /\ i \in DOMAIN users'
    /\ users'[i] = users[i]

\* C29: a create, update or delete changes only the record with the target
\* identifier and leaves every other record of the store as it was; a
\* successful create adds exactly one record, whose identifier differs from
\* every identifier already in the store.
C29_Frame ==
    [][\A r \in Reqs :
          Mutates(r) =>
              /\ reqs[r].pc # "store" => users' = users
              /\ reqs[r].pc = "store" =>
                    /\ \A i \in (DOMAIN users \cup DOMAIN users') \ {Target(r)} :
                          Untouched(i)
                    /\ (reqs[r].op = "create" /\ reqs'[r].storeResult = "ok") =>
                          /\ Target(r) \notin DOMAIN users
                          /\ DOMAIN users' = DOMAIN users \cup {Target(r)}
                          /\ users'[Target(r)].id = Target(r)]_vars

C29_Witness ==
    \E r \in Reqs :
        /\ reqs[r].op = "create" /\ reqs[r].pc = "done"
        /\ reqs[r].storeResult = "ok"
        /\ reqs[r].written[1].id \notin SeedIDs
        /\ DOMAIN users = SeedIDs \cup {reqs[r].written[1].id}
        /\ \A i \in SeedIDs : users[i] = SeedUser(i)

\* C30: for every page and pageSize the parser accepts, the skip the builder
\* computes is non-negative and equals the mathematical product
\* page x pageSize; the multiplication never wraps around the integer range.
C30_SkipNeverWraps ==
    (Returned("getUsers") /\ call.result.parsed.err = "") =>
        LET params == call.result.parsed.params[1]
            built == call.result.built[1]
        IN  /\ built.err = ""
            /\ built.opts[1].skip >= 0
            /\ built.opts[1].skip = params.page * params.page_size
====
